---- MODULE Spec2Model ----
(***************************************************************************)
(* Model of the Breeze Python wrapper (python/breeze/breeze.py and         *)
(* python/breeze/cli.py): binary resolution, the subprocess invocation     *)
(* and its error mapping, the public one-line forwarders (ai, chat, code,  *)
(* clear, stream, batch) and the command-line dispatcher main().           *)
(*                                                                         *)
(* Text is modelled as a sequence of one-character strings, so that        *)
(* str.strip(), str.split('\n'), " ".join(...) and the f-string prefixes   *)
(* are computed character by character.  What the operating system and     *)
(* the external executable do (does the file exist, what does which        *)
(* print, how does the child exit) is drawn nondeterministically at the    *)
(* step that observes it, and recorded in the state.                       *)
(***************************************************************************)
EXTENDS Integers, Sequences, FiniteSets, TLC

----------------------------------------------------------------------------
(* Bounds of the model *)

\* longest list of prompts handed to batch()
MaxBatch == 2
\* longest token list handed to main()
MaxTokens == 2

----------------------------------------------------------------------------
(* Text helpers: Python's str operations on sequences of characters *)

\* the characters str.strip() removes (of the ones the model uses)
IsSpace(c) == c \in {" ", "\n", "\t"}

RECURSIVE lstrip(_)
lstrip(s) == IF s # <<>> /\ IsSpace(Head(s)) THEN lstrip(Tail(s)) ELSE s

RECURSIVE rstrip(_)
rstrip(s) ==
  IF s # <<>> /\ IsSpace(s[Len(s)]) THEN rstrip(SubSeq(s, 1, Len(s) - 1)) ELSE s

\* str.strip()
strip(s) == rstrip(lstrip(s))

\* str.split(sep) for a one-character separator: never empty, s.split(sep)[0]
\* is split(s, sep)[1]
RECURSIVE split(_, _)
split(s, sep) ==
  IF \A i \in 1..Len(s) : s[i] # sep
    THEN <<s>>
    ELSE LET k == CHOOSE i \in 1..Len(s) :
                    s[i] = sep /\ \A j \in 1..(i - 1) : s[j] # sep
         IN <<SubSeq(s, 1, k - 1)>> \o split(SubSeq(s, k + 1, Len(s)), sep)

\* sep.join(parts)
RECURSIVE join(_, _)
join(parts, sep) ==
  IF parts = <<>> THEN <<>>
  ELSE IF Len(parts) = 1 THEN parts[1]
  ELSE parts[1] \o sep \o join(Tail(parts), sep)

\* repr() of a str without quotes or backslashes in it
RECURSIVE repr_body(_)
repr_body(s) ==
  IF s = <<>> THEN <<>>
  ELSE (IF Head(s) = "\n" THEN <<"\\", "n">>
        ELSE IF Head(s) = "\t" THEN <<"\\", "t">>
        ELSE <<Head(s)>>) \o repr_body(Tail(s))

repr_str(s) == <<"'">> \o repr_body(s) \o <<"'">>

\* repr() of a list of str
RECURSIVE repr_items(_)
repr_items(l) ==
  IF l = <<>> THEN <<>>
  ELSE IF Len(l) = 1 THEN repr_str(l[1])
  ELSE repr_str(l[1]) \o <<",", " ">> \o repr_items(Tail(l))

repr_list(l) == <<"[">> \o repr_items(l) \o <<"]">>

\* str() of a small non-negative int
str_int(n) == <<CASE n = 0 -> "0" [] n = 1 -> "1" [] n = 2 -> "2" [] OTHER -> "?">>

\* sub in s
Contains(s, sub) ==
  \E i \in 0..(Len(s) - Len(sub)) : SubSeq(s, i + 1, i + Len(sub)) = sub

StartsWith(s, pre) == Len(s) >= Len(pre) /\ SubSeq(s, 1, Len(pre)) = pre

----------------------------------------------------------------------------
(* String literals of the source *)

S_chat == <<"c","h","a","t">>
S_code == <<"c","o","d","e">>
S_clear == <<"c","l","e","a","r">>
S_breeze == <<"b","r","e","e","z","e">>
S_breeze_exe == <<"b","r","e","e","z","e",".","e","x","e">>

NotFoundMsg == <<"B","r","e","e","z","e"," ","b","i","n","a","r","y"," ","n","o","t"," ","f","o","u","n","d","."," ","P","l","e","a","s","e"," ","e","n","s","u","r","e"," ","G","o"," ","i","s"," ","i","n","s","t","a","l","l","e","d"," ","a","n","d"," ","r","u","n",":"," ","g","o"," ","b","u","i","l","d"," ",".","/","c","m","d","/","b","r","e","e","z","e">>
CommandFailedPrefix == <<"B","r","e","e","z","e"," ","c","o","m","m","a","n","d"," ","f","a","i","l","e","d",":"," ">>
ExecFailedPrefix == <<"F","a","i","l","e","d"," ","t","o"," ","e","x","e","c","u","t","e"," ","B","r","e","e","z","e",":"," ">>
ErrorPrefix == <<"E","r","r","o","r",":"," ">>
RequiresPrompt == <<" ","r","e","q","u","i","r","e","s"," ","a"," ","p","r","o","m","p","t">>
ClearedMsg == <<"C","o","n","v","e","r","s","a","t","i","o","n"," ","c","l","e","a","r","e","d",".">>
InterruptedMsg == <<"\n","I","n","t","e","r","r","u","p","t","e","d">>
HelpText == <<"u","s","a","g","e">>

\* str(e) of the exceptions subprocess.run raises
StrFileNotFound(path) ==
  <<"[","E","r","r","n","o"," ","2","]"," ","N","o"," ","s","u","c","h"," ","f","i","l","e"," ","o","r"," ","d","i","r","e","c","t","o","r","y",":"," ">> \o repr_str(path)
StrPermission(path) ==
  <<"[","E","r","r","n","o"," ","1","3","]"," ","P","e","r","m","i","s","s","i","o","n"," ","d","e","n","i","e","d",":"," ">> \o repr_str(path)
StrCalledProcessError(cmd, status) ==
  <<"C","o","m","m","a","n","d"," ","'">> \o repr_list(cmd) \o <<"'">>
    \o <<" ","r","e","t","u","r","n","e","d"," ","n","o","n","-","z","e","r","o"," ","e","x","i","t"," ","s","t","a","t","u","s"," ">>
    \o str_int(status) \o <<".">>

----------------------------------------------------------------------------
(* Values the environment and the callers supply *)

\* prompts a caller passes
Prompts == {<<"a">>, <<"b">>, <<" ", "a">>}

\* the optional parameters of ai(); "None" is the default
Models == {"None", "llama2"}
Temperatures == {"None", "0.5"}
DocLists == {"None", "docs"}

\* positional tokens on the command line (none starts with "-"; argparse
\* takes those as options before main's own code sees them)
Tokens == {S_chat, S_code, S_clear, <<"a">>, <<"b">>, <<>>}
TokenLists == UNION {[1..n -> Tokens] : n \in 0..MaxTokens}

PromptLists == UNION {[1..n -> Prompts] : n \in 0..MaxBatch}

Platforms == {"linux", "win32"}

\* Path(__file__).parent.parent.parent
PackageDir == <<"/", "r">>
PathSep(plat) == IF plat = "win32" THEN <<"\\">> ELSE <<"/">>

\* what binary_path.exists() and binary_path.is_file() answer
PkgStates == {[exists |-> FALSE, is_file |-> FALSE],
              [exists |-> TRUE, is_file |-> FALSE],
              [exists |-> TRUE, is_file |-> TRUE]}

\* what which/where prints on success: one path per line, one line per hit
WhichOutputs ==
  {<<"/", "u", "\n">>, <<"/", "u", "\n", "/", "o", "\n">>, <<"/", "o", "\n", "/", "u", "\n">>}

\* how subprocess.run of the lookup tool ends
LookupOutcomes ==
  {[kind |-> "ok", stdout |-> o] : o \in WhichOutputs}
    \cup {[kind |-> "CalledProcessError", stdout |-> <<>>],
          [kind |-> "FileNotFoundError", stdout |-> <<>>]}
NoLookup == [kind |-> "not run", stdout |-> <<>>]
NoPkg == [exists |-> FALSE, is_file |-> FALSE]

\* how the external executable behaves on one launch
ChildBehaviours == {"echo", "ok", "okwarn", "fail", "failquiet", "enoent", "eacces"}

\* what subprocess.run observes of the child: it cannot be launched, or it
\* exits with a status, its standard output and its standard error captured
child(b, bin, argv) ==
  CASE b = "echo" ->
         [kind |-> "exit", status |-> 0, stdout |-> join(argv, <<" ">>) \o <<"\n">>, stderr |-> <<>>]
    [] b = "ok" ->
         [kind |-> "exit", status |-> 0, stdout |-> <<"O", "K">>, stderr |-> <<>>]
    [] b = "okwarn" ->
         [kind |-> "exit", status |-> 0, stdout |-> <<" ", "O", " ", "K", "\n">>, stderr |-> <<"w", "\n">>]
    [] b = "fail" ->
         [kind |-> "exit", status |-> 1, stdout |-> <<>>, stderr |-> <<"b","a","d"," ","i","n","p","u","t">>]
    [] b = "failquiet" ->
         [kind |-> "exit", status |-> 2, stdout |-> <<"O", "K">>, stderr |-> <<>>]
    [] b = "enoent" ->
         [kind |-> "FileNotFoundError", status |-> 0, stdout |-> <<>>, stderr |-> <<>>]
    [] OTHER ->
         [kind |-> "PermissionError", status |-> 0, stdout |-> <<>>, stderr |-> <<>>]

\* the result of a function: nothing yet, a returned str, or a raised exception
NoOutcome == [kind |-> "none", type |-> "", value |-> <<>>]
Return(v) == [kind |-> "return", type |-> "str", value |-> v]
ReturnList == [kind |-> "return", type |-> "list", value |-> <<>>]
ReturnNone == [kind |-> "return", type |-> "None", value |-> <<>>]
Raise(t, msg) == [kind |-> "raise", type |-> t, value |-> msg]

----------------------------------------------------------------------------
(* breeze.py: the functions *)

binary_name(plat) == IF plat = "win32" THEN S_breeze_exe ELSE S_breeze
binary_path(plat) == PackageDir \o PathSep(plat) \o binary_name(plat)

\* variant: the search path is looked up first, the package directory second
find_lookup_first(plat, pkg, lookup) ==
  IF lookup.kind = "ok"
    THEN [out |-> Return(split(strip(lookup.stdout), "\n")[1]), lookups |-> 1]
    ELSE IF pkg.exists /\ pkg.is_file
      THEN [out |-> Return(binary_path(plat)), lookups |-> 1]
      ELSE [out |-> Raise("BreezeError", NotFoundMsg), lookups |-> 1]

\* variant: when both lookups fail, fall back to the bare executable name
find_fallback_name(plat, pkg, lookup) ==
  IF pkg.exists /\ pkg.is_file
    THEN [out |-> Return(binary_path(plat)), lookups |-> 0]
    ELSE IF lookup.kind = "ok"
      THEN [out |-> Return(split(strip(lookup.stdout), "\n")[1]), lookups |-> 1]
      ELSE [out |-> Return(binary_name(plat)), lookups |-> 1]

\* _find_breeze_binary: the package directory first, then the search path;
\* lookups counts the runs of which/where
find_breeze_binary(plat, pkg, lookup) ==
  IF pkg.exists /\ pkg.is_file
    THEN [out |-> Return(binary_path(plat)), lookups |-> 0]
    ELSE IF lookup.kind = "ok"
      THEN [out |-> Return(split(strip(lookup.stdout), "\n")[1]), lookups |-> 1]
      ELSE [out |-> Raise("BreezeError", NotFoundMsg), lookups |-> 1]

\* variant: the message of a failed command is the bare standard error
run_except_bare(e, stderr, desc) ==
  IF e.type = "CalledProcessError"
    THEN Raise("BreezeError", IF stderr # <<>> THEN stderr ELSE desc)
    ELSE IF e.type = "FileNotFoundError"
      THEN Raise("BreezeError", ExecFailedPrefix \o e.value)
      ELSE e

\* the except clauses of _run_breeze_command, applied to an exception raised
\* inside its try block
run_except(e, stderr, desc) ==
  IF e.type = "CalledProcessError"
    THEN Raise("BreezeError", CommandFailedPrefix \o (IF stderr # <<>> THEN stderr ELSE desc))
    ELSE IF e.type = "FileNotFoundError"
      THEN Raise("BreezeError", ExecFailedPrefix \o e.value)
      ELSE e

\* variant: standard output is returned as captured
run_result_raw(bin, argv, r) ==
  IF r.kind = "exit"
    THEN IF r.status = 0
      THEN Return(r.stdout)
      ELSE Raise("BreezeError", CommandFailedPrefix \o
                   (IF r.stderr # <<>> THEN r.stderr
                    ELSE StrCalledProcessError(<<bin>> \o argv, r.status)))
    ELSE IF r.kind = "FileNotFoundError"
      THEN Raise("BreezeError", ExecFailedPrefix \o StrFileNotFound(bin))
      ELSE Raise(r.kind, StrPermission(bin))

\* subprocess.run([binary] + args, capture_output, text, check=True) and the
\* rest of _run_breeze_command, given what the child did
run_result(bin, argv, r) ==
  IF r.kind = "exit"
    THEN IF r.status = 0
      THEN Return(strip(r.stdout))
      ELSE run_except(Raise("CalledProcessError", <<>>), r.stderr,
                      StrCalledProcessError(<<bin>> \o argv, r.status))
    ELSE IF r.kind = "FileNotFoundError"
      THEN run_except(Raise("FileNotFoundError", StrFileNotFound(bin)), <<>>, <<>>)
      ELSE run_except(Raise(r.kind, StrPermission(bin)), <<>>, <<>>)

\* the argument lists the public functions pass to _run_breeze_command
ai_args(prompt, model, temperature, concise, docs) == <<prompt>>
chat_args(prompt) == <<S_chat, prompt>>
code_args(prompt) == <<S_code, prompt>>
clear_args == <<S_clear>>
\* variant: stream asks the executable for a stream
stream_args_flag(prompt, callback) == <<<<"-", "s">>, prompt>>
\* stream: return ai(prompt)
stream_args(prompt, callback) == ai_args(prompt, "None", "None", FALSE, "None")
\* how often stream invokes its callback
stream_callbacks(prompt, callback) == 0

\* clear() discards what _run_breeze_command returns; ai, chat, code and
\* stream return it; an exception passes through all of them
op_result(o, out) == IF o = "clear" /\ out.kind = "return" THEN ReturnNone ELSE out

----------------------------------------------------------------------------
(* cli.py: main() up to the call it dispatches to *)

\* variant: a literal prompt is built from the remaining tokens only
main_dispatch_rest(toks) ==
  LET command == IF toks = <<>> THEN <<>> ELSE toks[1]
      rest == IF toks = <<>> THEN <<>> ELSE Tail(toks)
  IN IF command = <<>>
       THEN [do |-> "exit", status |-> 0, text |-> HelpText, fn |-> "none", prompt |-> <<>>]
     ELSE IF command \in {S_chat, S_code} /\ rest = <<>>
       THEN [do |-> "exit", status |-> 1, text |-> ErrorPrefix \o command \o RequiresPrompt,
             fn |-> "none", prompt |-> <<>>]
     ELSE IF command = S_clear
       THEN [do |-> "call", status |-> 0, text |-> <<>>, fn |-> "clear", prompt |-> <<>>]
     ELSE [do |-> "call", status |-> 0, text |-> <<>>,
           fn |-> IF command = S_chat THEN "chat" ELSE IF command = S_code THEN "code" ELSE "ai",
           prompt |-> join(rest, <<" ">>)]

\* args.command is None or "" (both written <<>>): print help, exit 0;
\* chat/code without prompt tokens: print an error, exit 1; else the
\* function to call and its prompt
main_dispatch(toks) ==
  LET command == IF toks = <<>> THEN <<>> ELSE toks[1]
      rest == IF toks = <<>> THEN <<>> ELSE Tail(toks)
  IN IF command = <<>>
       THEN [do |-> "exit", status |-> 0, text |-> HelpText, fn |-> "none", prompt |-> <<>>]
     ELSE IF command = S_chat
       THEN IF rest = <<>>
         THEN [do |-> "exit", status |-> 1, text |-> ErrorPrefix \o S_chat \o RequiresPrompt,
               fn |-> "none", prompt |-> <<>>]
         ELSE [do |-> "call", status |-> 0, text |-> <<>>, fn |-> "chat", prompt |-> join(rest, <<" ">>)]
     ELSE IF command = S_code
       THEN IF rest = <<>>
         THEN [do |-> "exit", status |-> 1, text |-> ErrorPrefix \o S_code \o RequiresPrompt,
               fn |-> "none", prompt |-> <<>>]
         ELSE [do |-> "call", status |-> 0, text |-> <<>>, fn |-> "code", prompt |-> join(rest, <<" ">>)]
     ELSE IF command = S_clear
       THEN [do |-> "call", status |-> 0, text |-> <<>>, fn |-> "clear", prompt |-> <<>>]
     ELSE [do |-> "call", status |-> 0, text |-> <<>>, fn |-> "ai",
           prompt |-> IF rest # <<>> THEN command \o <<" ">> \o join(rest, <<" ">>) ELSE command]

\* the argument list the function main calls passes on
fn_args(f, p) ==
  CASE f = "chat" -> chat_args(p)
    [] f = "code" -> code_args(p)
    [] f = "clear" -> clear_args
    [] OTHER -> ai_args(p, "None", "None", FALSE, "None")

\* exit statuses of main
ExitOk == 0
ExitError == 1
ExitInterrupt == 130

\* variant: a reported error does not change the exit status
main_finish_zero(f, out) ==
  IF out.kind = "return"
    THEN [status |-> ExitOk, stdout |-> <<IF f = "clear" THEN ClearedMsg ELSE out.value>>,
          stderr |-> <<>>, final |-> ReturnNone]
  ELSE IF out.type = "BreezeError"
    THEN [status |-> ExitOk, stdout |-> <<>>, stderr |-> <<ErrorPrefix \o out.value>>,
          final |-> ReturnNone]
  ELSE IF out.type = "KeyboardInterrupt"
    THEN [status |-> ExitInterrupt, stdout |-> <<>>, stderr |-> <<InterruptedMsg>>,
          final |-> Raise("SystemExit", <<>>)]
  ELSE [status |-> 1, stdout |-> <<>>, stderr |-> <<>>, final |-> out]

\* how main() ends once the call it made has returned or raised
main_finish(f, out) ==
  IF out.kind = "return"
    THEN [status |-> ExitOk, stdout |-> <<IF f = "clear" THEN ClearedMsg ELSE out.value>>,
          stderr |-> <<>>, final |-> ReturnNone]
  ELSE IF out.type = "BreezeError"
    THEN [status |-> ExitError, stdout |-> <<>>, stderr |-> <<ErrorPrefix \o out.value>>,
          final |-> Raise("SystemExit", <<>>)]
  ELSE IF out.type = "KeyboardInterrupt"
    THEN [status |-> ExitInterrupt, stdout |-> <<>>, stderr |-> <<InterruptedMsg>>,
          final |-> Raise("SystemExit", <<>>)]
  ELSE \* any other exception leaves main; the interpreter exits with status 1
       [status |-> 1, stdout |-> <<>>, stderr |-> <<>>, final |-> out]

----------------------------------------------------------------------------
(* State *)

VARIABLES
  platform,      \* sys.platform
  pc,            \* "idle", "find", "launch", "unwind", "done"
  op,            \* the function the caller called
  tokens,        \* main: the command-line tokens
  prompts,       \* batch: its argument
  params,        \* ai/stream: the parameters besides prompt
  acc,           \* batch: the list the comprehension has built so far
  results,       \* batch: the list returned
  called,        \* ai/chat/code/clear calls made during op, in order
  launches,      \* launches of the executable during op, in order
  final,         \* what op returned or raised to its caller
  exitCode,      \* main: the process exit status, -1 while running
  stdoutText,    \* main: strings printed to standard output
  stderrText,    \* main: strings printed to standard error
  callbackCalls, \* stream: invocations of the callback
  fn,            \* the function whose _run_breeze_command is running
  prompt,        \* its prompt
  args,          \* its argument list
  binary,        \* _run_breeze_command: the path last bound to the local binary
  pkgSeen,       \* what exists()/is_file() answered in this invocation
  lookupSeen,    \* how the which/where run of this invocation ended
  findOut,       \* what _find_breeze_binary returned or raised
  outcome,       \* what _run_breeze_command returned or raised
  resolveRuns,   \* runs of _find_breeze_binary in this invocation
  lookupRuns,    \* runs of which/where in this invocation
  launchRuns     \* launches of the executable in this invocation

opVars == <<op, tokens, prompts, params, final, exitCode, stdoutText, stderrText, callbackCalls>>
frameVars == <<fn, prompt, args, binary, pkgSeen, lookupSeen, findOut, outcome,
               resolveRuns, lookupRuns, launchRuns>>
vars == <<platform, pc, acc, results, called, launches, opVars, frameVars>>

NoParams == [model |-> "None", temperature |-> "None", concise |-> FALSE,
             docs |-> "None", callback |-> FALSE]

Init ==
  /\ platform \in Platforms
  /\ pc = "idle"
  /\ op = "none"
  /\ tokens = <<>>
  /\ prompts = <<>>
  /\ params = NoParams
  /\ acc = <<>>
  /\ results = <<>>
  /\ called = <<>>
  /\ launches = <<>>
  /\ final = NoOutcome
  /\ exitCode = -1
  /\ stdoutText = <<>>
  /\ stderrText = <<>>
  /\ callbackCalls = 0
  /\ fn = "none"
  /\ prompt = <<>>
  /\ args = <<>>
  /\ binary = <<>>
  /\ pkgSeen = NoPkg
  /\ lookupSeen = NoLookup
  /\ findOut = NoOutcome
  /\ outcome = NoOutcome
  /\ resolveRuns = 0
  /\ lookupRuns = 0
  /\ launchRuns = 0

----------------------------------------------------------------------------
(* Actions *)

\* the caller calls o
Enter(o, toks, ps, pr, fin) ==
  /\ pc = "idle"
  /\ op' = o
  /\ tokens' = toks
  /\ prompts' = ps
  /\ params' = pr
  /\ acc' = <<>>
  /\ results' = <<>>
  /\ launches' = <<>>
  /\ final' = fin
  /\ exitCode' = -1
  /\ stdoutText' = <<>>
  /\ stderrText' = <<>>
  /\ callbackCalls' = 0
  /\ UNCHANGED platform

\* f(p) calls _run_breeze_command(a): a new invocation starts
Invoke(f, p, a) ==
  /\ pc' = "find"
  /\ fn' = f
  /\ prompt' = p
  /\ args' = a
  /\ binary' = binary
  /\ pkgSeen' = NoPkg
  /\ lookupSeen' = NoLookup
  /\ findOut' = NoOutcome
  /\ outcome' = NoOutcome
  /\ resolveRuns' = 0
  /\ lookupRuns' = 0
  /\ launchRuns' = 0

\* op ends without a (further) invocation
NoInvoke == pc' = "done" /\ UNCHANGED frameVars

ai ==
  \E p \in Prompts, m \in Models, t \in Temperatures, c \in BOOLEAN, d \in DocLists :
    /\ Enter("ai", <<>>, <<>>,
             [model |-> m, temperature |-> t, concise |-> c, docs |-> d, callback |-> FALSE], NoOutcome)
    /\ called' = <<"ai">>
    /\ Invoke("ai", p, ai_args(p, m, t, c, d))

chat ==
  \E p \in Prompts :
    /\ Enter("chat", <<>>, <<>>, NoParams, NoOutcome)
    /\ called' = <<"chat">>
    /\ Invoke("chat", p, chat_args(p))

code ==
  \E p \in Prompts :
    /\ Enter("code", <<>>, <<>>, NoParams, NoOutcome)
    /\ called' = <<"code">>
    /\ Invoke("code", p, code_args(p))

clear ==
  /\ Enter("clear", <<>>, <<>>, NoParams, NoOutcome)
  /\ called' = <<"clear">>
  /\ Invoke("clear", <<>>, clear_args)

stream ==
  \E p \in Prompts, cb \in BOOLEAN :
    /\ Enter("stream", <<>>, <<>>, [NoParams EXCEPT !.callback = cb], NoOutcome)
    /\ called' = <<"ai">>
    /\ Invoke("ai", p, stream_args(p, cb))

\* batch: the list comprehension starts with the first prompt, if any
batch ==
  \E ps \in PromptLists :
    /\ Enter("batch", <<>>, ps, NoParams,
             IF ps = <<>> THEN ReturnList ELSE NoOutcome)
    /\ IF ps = <<>>
         THEN /\ called' = <<>>
              /\ NoInvoke
         ELSE /\ called' = <<"ai">>
              /\ Invoke("ai", ps[1], ai_args(ps[1], "None", "None", FALSE, "None"))

\* main: parse, then exit at once or dispatch to one function
main ==
  \E toks \in TokenLists :
    LET d == main_dispatch(toks) IN
    /\ pc = "idle"
    /\ op' = "main"
    /\ tokens' = toks
    /\ prompts' = <<>>
    /\ params' = NoParams
    /\ acc' = <<>>
    /\ results' = <<>>
    /\ launches' = <<>>
    /\ callbackCalls' = 0
    /\ stderrText' = <<>>
    /\ UNCHANGED platform
    /\ IF d.do = "exit"
         THEN /\ called' = <<>>
              /\ stdoutText' = <<d.text>>
              /\ exitCode' = d.status
              /\ final' = Raise("SystemExit", <<>>)
              /\ NoInvoke
         ELSE /\ called' = <<d.fn>>
              /\ stdoutText' = <<>>
              /\ exitCode' = -1
              /\ final' = NoOutcome
              /\ Invoke(d.fn, d.prompt, fn_args(d.fn, d.prompt))

\* _run_breeze_command, first half: binary = _find_breeze_binary()
RunFind ==
  /\ pc = "find"
  /\ \E pkg \in PkgStates, lookup \in LookupOutcomes :
       LET r == find_breeze_binary(platform, pkg, lookup) IN
       /\ pkgSeen' = pkg
       /\ lookupSeen' = IF r.lookups = 0 THEN NoLookup ELSE lookup
       /\ lookupRuns' = lookupRuns + r.lookups
       /\ findOut' = r.out
       /\ IF r.out.kind = "return"
            THEN /\ binary' = r.out.value
                 /\ outcome' = outcome
                 /\ pc' = "launch"
            ELSE /\ binary' = binary
                 /\ outcome' = run_except(r.out, <<>>, <<>>)
                 /\ pc' = "unwind"
  /\ resolveRuns' = resolveRuns + 1
  /\ UNCHANGED <<platform, acc, results, called, launches, opVars,
                 fn, prompt, args, launchRuns>>

\* variant: a command that exits non-zero is launched again
RunLaunchRetry ==
  /\ pc = "launch"
  /\ \E b \in ChildBehaviours :
       LET r == child(b, binary, args) IN
       /\ launches' = Append(launches, [binary |-> binary, args |-> args,
                                        behaviour |-> b])
       /\ outcome' = run_result(binary, args, r)
       /\ pc' = IF r.kind = "exit" /\ r.status # 0 /\ launchRuns = 0
                  THEN "launch" ELSE "unwind"
  /\ launchRuns' = launchRuns + 1
  /\ UNCHANGED <<platform, acc, results, called, opVars,
                 fn, prompt, args, binary, pkgSeen, lookupSeen, findOut,
                 resolveRuns, lookupRuns>>

\* _run_breeze_command, second half: subprocess.run([binary] + args, ...)
RunLaunch ==
  /\ pc = "launch"
  /\ \E b \in ChildBehaviours :
       LET r == child(b, binary, args) IN
       /\ launches' = Append(launches, [binary |-> binary, args |-> args,
                                        behaviour |-> b])
       /\ outcome' = run_result(binary, args, r)
  /\ launchRuns' = launchRuns + 1
  /\ pc' = "unwind"
  /\ UNCHANGED <<platform, acc, results, called, opVars,
                 fn, prompt, args, binary, pkgSeen, lookupSeen, findOut,
                 resolveRuns, lookupRuns>>

\* Ctrl-C while _run_breeze_command waits: KeyboardInterrupt, which none of
\* its except clauses catches
Interrupt ==
  /\ pc \in {"find", "launch"}
  /\ outcome' = run_except(Raise("KeyboardInterrupt", <<>>), <<>>, <<>>)
  /\ pc' = "unwind"
  /\ UNCHANGED <<platform, acc, results, called, launches, opVars,
                 fn, prompt, args, binary, pkgSeen, lookupSeen, findOut,
                 resolveRuns, lookupRuns, launchRuns>>

\* ai, chat, code, clear, stream: return what _run_breeze_command gave
ReturnToCaller ==
  /\ pc = "unwind"
  /\ op \in {"ai", "chat", "code", "clear", "stream"}
  /\ final' = op_result(op, outcome)
  /\ callbackCalls' = callbackCalls +
       (IF op = "stream" THEN stream_callbacks(prompt, params.callback) ELSE 0)
  /\ pc' = "done"
  /\ UNCHANGED <<platform, acc, results, called, launches, frameVars,
                 op, tokens, prompts, params, exitCode, stdoutText, stderrText>>

\* variant: a failed element is skipped with an empty response
batch_step_skip(ps, sofar, out) ==
  LET grown == Append(sofar, IF out.kind = "return" THEN out.value ELSE <<>>) IN
  IF Len(grown) = Len(ps)
    THEN [next |-> "return", acc |-> grown, results |-> grown,
          final |-> ReturnList]
    ELSE [next |-> "call", acc |-> grown, results |-> <<>>, final |-> NoOutcome]

\* batch: one ai(prompt) of the comprehension has ended
batch_step(ps, sofar, out) ==
  IF out.kind # "return"
    THEN [next |-> "raise", acc |-> sofar, results |-> <<>>, final |-> out]
    ELSE LET grown == Append(sofar, out.value) IN
         IF Len(grown) = Len(ps)
           THEN [next |-> "return", acc |-> grown, results |-> grown,
                 final |-> ReturnList]
           ELSE [next |-> "call", acc |-> grown, results |-> <<>>, final |-> NoOutcome]

BatchNext ==
  /\ pc = "unwind"
  /\ op = "batch"
  /\ LET s == batch_step(prompts, acc, outcome) IN
     /\ acc' = s.acc
     /\ results' = s.results
     /\ final' = s.final
     /\ IF s.next = "call"
          THEN /\ called' = Append(called, "ai")
               /\ Invoke("ai", prompts[Len(s.acc) + 1],
                         ai_args(prompts[Len(s.acc) + 1], "None", "None", FALSE, "None"))
          ELSE /\ called' = called
               /\ NoInvoke
  /\ UNCHANGED <<platform, launches, op, tokens, prompts, params, exitCode,
                 stdoutText, stderrText, callbackCalls>>

\* main: print the response or the error and exit
MainFinish ==
  /\ pc = "unwind"
  /\ op = "main"
  /\ LET m == main_finish(fn, outcome) IN
     /\ exitCode' = m.status
     /\ stdoutText' = m.stdout
     /\ stderrText' = m.stderr
     /\ final' = m.final
  /\ pc' = "done"
  /\ UNCHANGED <<platform, acc, results, called, launches, frameVars,
                 op, tokens, prompts, params, callbackCalls>>

\* the caller has its result; nothing of the call is kept but the files on
\* disk, and the model's record of the path resolved last
CallEnds ==
  /\ pc = "done"
  /\ pc' = "idle"
  /\ op' = "none"
  /\ tokens' = <<>>
  /\ prompts' = <<>>
  /\ params' = NoParams
  /\ acc' = <<>>
  /\ results' = <<>>
  /\ called' = <<>>
  /\ launches' = <<>>
  /\ final' = NoOutcome
  /\ exitCode' = -1
  /\ stdoutText' = <<>>
  /\ stderrText' = <<>>
  /\ callbackCalls' = 0
  /\ fn' = "none"
  /\ prompt' = <<>>
  /\ args' = <<>>
  /\ pkgSeen' = NoPkg
  /\ lookupSeen' = NoLookup
  /\ findOut' = NoOutcome
  /\ outcome' = NoOutcome
  /\ resolveRuns' = 0
  /\ lookupRuns' = 0
  /\ launchRuns' = 0
  /\ UNCHANGED <<platform, binary>>

Next ==
  \/ ai
  \/ chat
  \/ code
  \/ clear
  \/ stream
  \/ batch
  \/ main
  \/ RunFind
  \/ RunLaunch
  \/ Interrupt
  \/ ReturnToCaller
  \/ BatchNext
  \/ MainFinish
  \/ CallEnds

Spec == Init /\ [][Next]_vars

TypeOK ==
  /\ pc \in {"idle", "find", "launch", "unwind", "done"}
  /\ op \in {"none", "ai", "chat", "code", "clear", "stream", "batch", "main"}
  /\ fn \in {"none", "ai", "chat", "code", "clear"}
  /\ exitCode \in {-1, ExitOk, ExitError, ExitInterrupt}
  /\ resolveRuns \in 0..1 /\ lookupRuns \in 0..1 /\ launchRuns \in 0..1
  /\ Len(acc) <= Len(prompts)

----------------------------------------------------------------------------
(* Vocabulary of the properties *)

\* an invocation of _run_breeze_command has ended
Ended == pc \in {"unwind", "done"} /\ fn # "none"
\* the caller called one of the one-invocation functions and has its result
SimpleDone == pc = "done" /\ op \in {"ai", "chat", "code", "clear"}
\* the launch of the current invocation and what the child did in it
LastLaunch == launches[Len(launches)]
Observed(l) == child(l.behaviour, l.binary, l.args)
LaunchedAndSaw(kinds) ==
  Ended /\ launchRuns = 1 /\ Observed(LastLaunch).kind \in kinds
\* the package directory held the binary as a regular file
PkgHit == pkgSeen.exists /\ pkgSeen.is_file
\* the text before the first line feed
FirstLine(s) ==
  LET ends == {i \in 1..Len(s) : s[i] = "\n"}
      stop == IF ends = {} THEN Len(s) + 1
              ELSE CHOOSE i \in ends : \A j \in ends : i <= j
  IN [i \in 1..(stop - 1) |-> s[i]]
\* v is s without its leading and trailing whitespace
IsTrimOf(v, s) ==
  /\ \E i \in 0..Len(s), j \in 0..Len(s) :
       /\ i + j <= Len(s)
       /\ v = [k \in 1..(Len(s) - i - j) |-> s[i + k]]
       /\ \A k \in 1..i : IsSpace(s[k])
       /\ \A k \in (Len(s) - j + 1)..Len(s) : IsSpace(s[k])
  /\ v = <<>> \/ (~IsSpace(v[1]) /\ ~IsSpace(v[Len(v)]))
\* the path of the binary in the package directory, spelled out
PkgPathOf(plat) ==
  IF plat = "win32" THEN <<"/","r","\\","b","r","e","e","z","e",".","e","x","e">>
  ELSE <<"/","r","/","b","r","e","e","z","e">>
\* the marker the test looks for in the message
NotFoundMarker == <<"B","r","e","e","z","e"," ","b","i","n","a","r","y"," ","n","o","t"," ","f","o","u","n","d">>
BadInput == <<"b","a","d"," ","i","n","p","u","t">>

----------------------------------------------------------------------------
(* C1: failed invocation *)

\* C1 as stated: when the executable exits non-zero having written non-empty
\* text S to standard error, the operation fails with a BreezeError whose
\* message equals S.
C1_MessageIsStderr ==
  (LaunchedAndSaw({"exit"}) /\ Observed(LastLaunch).status # 0
     /\ Observed(LastLaunch).stderr # <<>>)
    => /\ outcome = Raise("BreezeError", Observed(LastLaunch).stderr)
       /\ SimpleDone => final = outcome

\* C1 amended: in that case the operation fails with a BreezeError whose
\* message is "Breeze command failed: " followed by S, and ai, chat, code and
\* clear pass that error to their caller.
C1_MessageIsPrefixedStderr ==
  (LaunchedAndSaw({"exit"}) /\ Observed(LastLaunch).status # 0
     /\ Observed(LastLaunch).stderr # <<>>)
    => /\ outcome = Raise("BreezeError",
                          <<"B","r","e","e","z","e"," ","c","o","m","m","a","n","d"," ","f","a","i","l","e","d",":"," ">>
                            \o Observed(LastLaunch).stderr)
       /\ SimpleDone => final = outcome

C1_Witness ==
  /\ SimpleDone /\ op = "chat" /\ launchRuns = 1
  /\ Observed(LastLaunch).status = 1
  /\ Observed(LastLaunch).stderr = BadInput
  /\ final.type = "BreezeError"

(* C2: launch failure *)

\* C2: whenever a path was resolved but the process cannot be launched
\* (missing, or present but not executable) the invocation fails with a
\* BreezeError of the "Failed to execute Breeze" kind, and no other exception
\* type reaches the caller of ai, chat, code or clear.
C2_LaunchFailureIsBreezeError ==
  LaunchedAndSaw({"FileNotFoundError", "PermissionError"})
    => /\ outcome.kind = "raise"
       /\ outcome.type = "BreezeError"
       /\ StartsWith(outcome.value, ExecFailedPrefix)
       /\ SimpleDone => final.type = "BreezeError"

(* C3: binary resolution precedence *)

\* C3: once _find_breeze_binary has run, if the package-directory path
\* existed as a regular file it returned that path and which/where was not
\* run; otherwise which/where was run once, and when it succeeded the first
\* line of its output was returned.
C3_ResolutionPrecedence ==
  resolveRuns = 1 =>
    IF PkgHit
      THEN /\ findOut = Return(PkgPathOf(platform))
           /\ lookupRuns = 0
           /\ lookupSeen = NoLookup
      ELSE /\ lookupRuns = 1
           /\ lookupSeen.kind = "ok" => findOut = Return(FirstLine(lookupSeen.stdout))

C3_Witness ==
  /\ pc = "launch" /\ PkgHit /\ lookupRuns = 0
  /\ platform = "win32" /\ binary = PkgPathOf("win32")

(* C4: binary resolution failure *)

\* C4: when the package-directory path is absent or not a regular file and
\* the lookup fails (non-zero exit, or the lookup tool is missing),
\* _find_breeze_binary raises a BreezeError containing "Breeze binary not
\* found"; _run_breeze_command passes it on unchanged, the executable is not
\* launched, and ai, chat, code and clear raise the same error.
C4_NotFound ==
  (resolveRuns = 1 /\ ~PkgHit
     /\ lookupSeen.kind \in {"CalledProcessError", "FileNotFoundError"})
    => /\ findOut.kind = "raise"
       /\ findOut.type = "BreezeError"
       /\ Contains(findOut.value, NotFoundMarker)
       /\ outcome = findOut
       /\ launchRuns = 0
       /\ pc # "launch"
       /\ SimpleDone => final = findOut

C4_Witness ==
  /\ SimpleDone /\ op = "ai" /\ resolveRuns = 1 /\ launchRuns = 0
  /\ pkgSeen.exists /\ ~pkgSeen.is_file
  /\ lookupSeen.kind = "FileNotFoundError"
  /\ final.type = "BreezeError"

(* C5: successful invocation *)

\* C5: whenever the executable exits with status 0, _run_breeze_command
\* returns the captured standard output without its leading and trailing
\* whitespace and raises nothing, whatever is on standard error; ai, chat and
\* code return that text, and a child printing "OK" makes ai return "OK".
C5_TrimmedStdout ==
  (LaunchedAndSaw({"exit"}) /\ Observed(LastLaunch).status = 0)
    => /\ outcome.kind = "return"
       /\ outcome.type = "str"
       /\ IsTrimOf(outcome.value, Observed(LastLaunch).stdout)
       /\ (pc = "done" /\ op \in {"ai", "chat", "code"}) => final = outcome
       /\ (pc = "done" /\ op = "ai" /\ LastLaunch.behaviour = "ok")
            => final.value = <<"O", "K">>

C5_Witness ==
  /\ pc = "done" /\ op = "ai" /\ launchRuns = 1
  /\ LastLaunch.behaviour = "okwarn"
  /\ Observed(LastLaunch).stderr # <<>>
  /\ final = Return(<<"O", " ", "K">>)

(* C6: batch ordering and abort *)

\* C6: batch runs its queries one at a time in input order: the query for
\* element i is the only one under way and starts after the i-1 before it
\* returned; launch i carries [prompts[i]] and the response at position i is
\* the trimmed output of launch i; when all succeed the returned list has
\* the length of prompts (an echoing executable gives ["a", "b"] for
\* ["a", "b"]); when a query fails the batch raises that error, returns no
\* list, and nothing is called or launched for a later element.
C6_BatchInOrder ==
  op = "batch" =>
    /\ \A i \in 1..Len(called) : called[i] = "ai"
    /\ Len(acc) <= Len(prompts)
    /\ Len(launches) <= Len(called)
    /\ pc \in {"find", "launch", "unwind"} =>
         /\ Len(called) = Len(acc) + 1
         /\ Len(acc) < Len(prompts)
         /\ prompt = prompts[Len(acc) + 1]
         /\ args = <<prompts[Len(acc) + 1]>>
    /\ \A i \in 1..Len(launches) : launches[i].args = <<prompts[i]>>
    /\ \A i \in 1..Len(acc) :
         /\ i <= Len(launches)
         /\ Observed(launches[i]).kind = "exit"
         /\ Observed(launches[i]).status = 0
         /\ IsTrimOf(acc[i], Observed(launches[i]).stdout)
    /\ pc = "done" =>
         /\ final.kind \in {"return", "raise"}
         /\ final.kind = "return" =>
              /\ results = acc
              /\ Len(results) = Len(prompts)
              /\ Len(called) = Len(prompts)
              /\ (prompts = << <<"a">>, <<"b">> >>
                    /\ \A i \in 1..2 : launches[i].behaviour = "echo")
                   => results = << <<"a">>, <<"b">> >>
         /\ final.kind = "raise" =>
              /\ results = <<>>
              /\ final = outcome
              /\ Len(called) = Len(acc) + 1
              /\ Len(launches) <= Len(acc) + 1

C6_Witness ==
  /\ pc = "done" /\ op = "batch"
  /\ prompts = << <<"a">>, <<"b">> >>
  /\ \A i \in 1..Len(launches) : launches[i].behaviour = "echo"
  /\ results = << <<"a">>, <<"b">> >>

(* C7: streaming degenerate behaviour *)

\* what ai(prompt) returns or raises when the files, the lookup and the
\* child behave as this invocation saw them
SameRunOfAi ==
  IF outcome.type = "KeyboardInterrupt" THEN outcome
  ELSE IF findOut.kind = "raise" THEN findOut
  ELSE run_result(findOut.value, <<prompt>>,
                  child(LastLaunch.behaviour, findOut.value, <<prompt>>))

\* C7: stream(prompt, callback), with or without a callback, never invokes
\* the callback, makes the one invocation with arguments [prompt] that
\* ai(prompt) makes, and returns or raises what ai(prompt) does for the same
\* behaviour of the executable.
C7_StreamIsAi ==
  op = "stream" =>
    /\ callbackCalls = 0
    /\ called = <<"ai">>
    /\ args = <<prompt>>
    /\ Len(launches) <= 1
    /\ \A i \in 1..Len(launches) : launches[i].args = <<prompt>>
    /\ pc = "done" => final = SameRunOfAi

C7_Witness ==
  /\ pc = "done" /\ op = "stream" /\ params.callback
  /\ launchRuns = 1 /\ LastLaunch.behaviour = "echo"
  /\ prompt = <<" ", "a">> /\ final = Return(<<"a">>)
  /\ callbackCalls = 0

(* C8: exit status of the command line *)

\* C8: a run of main() ends with exit status 0 when the dispatched function
\* returned or no command was given (help is printed), 1 when the function
\* raised BreezeError (printed to standard error after "Error: ") or chat or
\* code came without a prompt, and 130 on KeyboardInterrupt; BreezeError
\* never leaves main.
C8_ExitStatus ==
  (op = "main" /\ pc = "done") =>
    /\ final.type # "BreezeError"
    /\ (tokens = <<>>) => (exitCode = 0 /\ stdoutText = <<HelpText>>)
    /\ (Len(tokens) = 1 /\ tokens[1] \in {S_chat, S_code}) => exitCode = 1
    /\ (fn # "none" /\ outcome.kind = "return") => exitCode = 0
    /\ (fn # "none" /\ outcome.type = "BreezeError") =>
         /\ exitCode = 1
         /\ stderrText = <<(<<"E","r","r","o","r",":"," ">> \o outcome.value)>>
    /\ (fn # "none" /\ outcome.type = "KeyboardInterrupt") => exitCode = 130

C8_Witness ==
  /\ op = "main" /\ pc = "done" /\ fn = "code"
  /\ outcome.type = "BreezeError" /\ launchRuns = 1
  /\ exitCode = 1

(* C9: dispatch of the command line *)

\* main is over, or the function it dispatched to is running
MainDispatched == op = "main" /\ pc # "idle"
\* the function main called is f, called once, with argument list a
MainCalls(f, a) ==
  /\ called = <<f>>
  /\ fn = f
  /\ args = a
  /\ Len(launches) <= 1
  /\ \A i \in 1..Len(launches) : launches[i].args = a

\* C9 as stated: first token chat or code: invoked with [subcommand, the
\* remaining tokens joined by spaces]; first token clear: invoked with
\* ["clear"]; any other first token: invoked with the one argument made of
\* all tokens joined by spaces; each time exactly one function is called.
C9_DispatchAsStated ==
  (MainDispatched /\ tokens # <<>>) =>
    IF tokens[1] = S_chat THEN MainCalls("chat", <<S_chat, join(Tail(tokens), <<" ">>)>>)
    ELSE IF tokens[1] = S_code THEN MainCalls("code", <<S_code, join(Tail(tokens), <<" ">>)>>)
    ELSE IF tokens[1] = S_clear THEN MainCalls("clear", <<S_clear>>)
    ELSE MainCalls("ai", <<join(tokens, <<" ">>)>>)

\* C9 amended: as stated, except that nothing is called when chat or code
\* comes with no further token (exit status 1) or when the first token is
\* the empty string (help, exit status 0); so at most one function is
\* called, and exactly one in every other case.
C9_Dispatch ==
  (MainDispatched /\ tokens # <<>>) =>
    IF tokens[1] = <<>>
      THEN called = <<>> /\ launches = <<>> /\ exitCode = 0
    ELSE IF tokens[1] \in {S_chat, S_code} /\ Len(tokens) = 1
      THEN called = <<>> /\ launches = <<>> /\ exitCode = 1
    ELSE IF tokens[1] = S_chat THEN MainCalls("chat", <<S_chat, join(Tail(tokens), <<" ">>)>>)
    ELSE IF tokens[1] = S_code THEN MainCalls("code", <<S_code, join(Tail(tokens), <<" ">>)>>)
    ELSE IF tokens[1] = S_clear THEN MainCalls("clear", <<S_clear>>)
    ELSE MainCalls("ai", <<join(tokens, <<" ">>)>>)

C9_Witness ==
  /\ op = "main" /\ pc = "done"
  /\ tokens = << <<"a">>, S_chat >>
  /\ launchRuns = 1
  /\ LastLaunch.args = << <<"a", " ", "c", "h", "a", "t">> >>

(* C10: one invocation per operation, no retry *)

\* the argument list each function passes, spelled out
ArgsOf(f, p) ==
  CASE f = "ai" -> <<p>>
    [] f = "chat" -> << <<"c","h","a","t">>, p >>
    [] f = "code" -> << <<"c","o","d","e">>, p >>
    [] f = "clear" -> << <<"c","l","e","a","r">> >>

====
